---- MODULE Spec2Model ----
(***************************************************************************)
(* Model of rustls' MessageDeframer (src/msgs/deframer.rs).                *)
(*                                                                         *)
(* The deframer owns an accumulation buffer `buf`, an output deque         *)
(* `frames` and the `desynced` flag.  `read()` performs one read from a    *)
(* byte source into the free tail of `buf` and then moves every complete   *)
(* TLS record at the front of `buf` onto `frames`.  The caller pops        *)
(* `frames` from the front.                                                *)
(*                                                                         *)
(* The byte source is the environment: records and damaged headers arrive  *)
(* on it (Arrive), and each source read hands over any number of the       *)
(* pending bytes that fits the request, or fails.                          *)
(***************************************************************************)
EXTENDS Integers, Sequences, FiniteSets, TLC

VARIABLES
    buf,            \* MessageDeframer.buf
    frames,         \* MessageDeframer.frames
    desynced,       \* MessageDeframer.desynced
    src,            \* bytes the byte source holds and has not handed over yet
    arrived,        \* number of items that arrived on the byte source
    wire,           \* history: every byte returned by a successful source read
    popped,         \* history: the records the caller popped, in pop order
    lastOp,         \* the last call made: "new", "read", "pop"
    rc,             \* Some(what the last call returned), if it was a read()
    ioReq,          \* Some(size of the source read the last call issued), if any
    ioRes,          \* Some(what that source read returned)
    framesBefore,   \* frames.len() when the last call started
    desyncedBefore, \* desynced when the last call started
    verdict,        \* the last result of buf_contains_message (on an empty
                    \* buffer, Some(false), before any call)
    bytewise,       \* every successful source read so far returned one byte
    probe           \* buffer handed to buf_contains_message on its own

vars == <<buf, frames, desynced, src, arrived, wire, popped, lastOp, rc,
          ioReq, ioRes, framesBefore, desyncedBefore, verdict, bytewise, probe>>

(***************************************************************************)
(* Bounds of the model.  PayloadLimit stands for 16384 + 2048 and          *)
(* QueueLimit for 1024: the code compares against them and never uses      *)
(* their magnitude otherwise.  MaxItems bounds what the peer sends and     *)
(* MaxProbe the length of the buffers buf_contains_message is probed with. *)
(***************************************************************************)
PayloadLimit == 7

QueueLimit == 2

MaxItems == 3

MaxProbe == 6

HEADER_SIZE == 1 + 2 + 2

MAX_MESSAGE == PayloadLimit + HEADER_SIZE

QUEUE_SIZE == QueueLimit

(***************************************************************************)
(* Option<T> and io::Result<usize>.                                        *)
(***************************************************************************)
None == <<>>

Some(x) == <<x>>

Unwrap(o) == o[1]

Ok(n) == [ok |-> TRUE, val |-> n]

IoErr == [ok |-> FALSE, val |-> 0]

(***************************************************************************)
(* Vec<u8> operations used by the deframer.                                *)
(***************************************************************************)
Resize(v, n, x) ==
    IF n <= Len(v) THEN SubSeq(v, 1, n)
    ELSE v \o [i \in 1..(n - Len(v)) |-> x]

Truncate(v, n) == IF n < Len(v) THEN SubSeq(v, 1, n) ELSE v

SplitOff(v, at) == SubSeq(v, at + 1, Len(v))

\* The source copies `bytes` into the slice v[lo..hi].
WriteSlice(v, lo, hi, bytes) ==
    [i \in 1..Len(v) |->
        IF i > lo /\ i <= hi /\ i - lo <= Len(bytes) THEN bytes[i - lo] ELSE v[i]]

(***************************************************************************)
(* The record header and record decoders (msgs::message::Message).         *)
(***************************************************************************)
ContentTypes == {20, 21, 22, 23}

ProtocolVersions == {<<3, 0>>, <<3, 1>>, <<3, 2>>, <<3, 3>>}

ReadU16(hi, lo) == hi * 256 + lo

\* Message::check_header: the declared length, or None for a damaged header.
CheckHeader(b) ==
    IF b[1] \notin ContentTypes THEN None
    ELSE IF <<b[2], b[3]>> \notin ProtocolVersions THEN None
    ELSE Some(ReadU16(b[4], b[5]))

\* Message::read with Reader::used: the record at the front of b and the
\* number of bytes it took.
MessageRead(b) ==
    IF Len(b) < HEADER_SIZE THEN None
    ELSE LET len == ReadU16(b[4], b[5]) IN
         IF Len(b) < HEADER_SIZE + len THEN None
         ELSE Some([msg  |-> [typ     |-> b[1],
                              version |-> <<b[2], b[3]>>,
                              payload |-> SubSeq(b, HEADER_SIZE + 1, HEADER_SIZE + len)],
                    used |-> HEADER_SIZE + len])

(***************************************************************************)
(* MessageDeframer.                                                        *)
(***************************************************************************)
BufContainsMessageOffByOne(b) ==
    IF Len(b) < HEADER_SIZE THEN Some(FALSE)
    ELSE LET len_maybe == CheckHeader(b) IN
         IF len_maybe = None THEN None
         ELSE LET len == Unwrap(len_maybe) IN
              IF len > MAX_MESSAGE - HEADER_SIZE THEN None
              ELSE Some(Len(b) >= len + HEADER_SIZE)

BufContainsMessageLate(b) ==
    IF Len(b) < HEADER_SIZE THEN Some(FALSE)
    ELSE LET len_maybe == CheckHeader(b) IN
         IF len_maybe = None THEN None
         ELSE LET len == Unwrap(len_maybe) IN
              IF len >= MAX_MESSAGE - HEADER_SIZE THEN None
              ELSE Some(Len(b) > len + HEADER_SIZE)

BufContainsMessage(b) ==
    IF Len(b) < HEADER_SIZE THEN Some(FALSE)
    ELSE LET len_maybe == CheckHeader(b) IN
         IF len_maybe = None THEN None
         ELSE LET len == Unwrap(len_maybe) IN
              IF len >= MAX_MESSAGE - HEADER_SIZE THEN None
              ELSE Some(Len(b) >= len + HEADER_SIZE)

DeframeOnePushFront(b, f) ==
    LET m == Unwrap(MessageRead(b)) IN
    [buf |-> SplitOff(b, m.used), frames |-> <<m.msg>> \o f]

DeframeOneClear(b, f) ==
    LET m == Unwrap(MessageRead(b)) IN
    [buf |-> <<>>, frames |-> Append(f, m.msg)]

DeframeOneOffByOne(b, f) ==
    LET m == Unwrap(MessageRead(b)) IN
    [buf |-> SplitOff(b, m.used - 1), frames |-> Append(f, m.msg)]

DeframeOne(b, f) ==
    LET m == Unwrap(MessageRead(b)) IN
    [buf |-> SplitOff(b, m.used), frames |-> Append(f, m.msg)]

RECURSIVE DrainLoopToggle(_, _, _)
DrainLoopToggle(b, f, d) ==
    LET v == BufContainsMessage(b) IN
    IF v = None THEN [buf |-> b, frames |-> f, desynced |-> ~d, verdict |-> v]
    ELSE IF v = Some(TRUE)
         THEN LET s == DeframeOne(b, f) IN DrainLoopToggle(s.buf, s.frames, d)
         ELSE [buf |-> b, frames |-> f, desynced |-> d, verdict |-> v]

RECURSIVE DrainLoopClear(_, _, _)
DrainLoopClear(b, f, d) ==
    LET v == BufContainsMessage(b) IN
    IF v = None THEN [buf |-> <<>>, frames |-> f, desynced |-> TRUE, verdict |-> v]
    ELSE IF v = Some(TRUE)
         THEN LET s == DeframeOne(b, f) IN DrainLoopClear(s.buf, s.frames, d)
         ELSE [buf |-> b, frames |-> f, desynced |-> d, verdict |-> v]

RECURSIVE DrainLoopSkip(_, _, _)
DrainLoopSkip(b, f, d) ==
    LET v == BufContainsMessage(b) IN
    IF v = None THEN DrainLoopSkip(SplitOff(b, HEADER_SIZE), f, TRUE)
    ELSE IF v = Some(TRUE)
         THEN LET s == DeframeOne(b, f) IN DrainLoopSkip(s.buf, s.frames, d)
         ELSE [buf |-> b, frames |-> f, desynced |-> d, verdict |-> v]

DrainLoopOnce(b, f, d) ==
    LET v == BufContainsMessage(b) IN
    IF v = None THEN [buf |-> b, frames |-> f, desynced |-> TRUE, verdict |-> v]
    ELSE IF v = Some(TRUE)
         THEN LET s == DeframeOne(b, f) IN
              [buf |-> s.buf, frames |-> s.frames, desynced |-> d, verdict |-> v]
         ELSE [buf |-> b, frames |-> f, desynced |-> d, verdict |-> v]

\* The loop of read(): the state it leaves and the verdict that ended it.
RECURSIVE DrainLoop(_, _, _)
DrainLoop(b, f, d) ==
    LET v == BufContainsMessage(b) IN
    IF v = None THEN [buf |-> b, frames |-> f, desynced |-> TRUE, verdict |-> v]
    ELSE IF v = Some(TRUE)
         THEN LET s == DeframeOne(b, f) IN DrainLoop(s.buf, s.frames, d)
         ELSE [buf |-> b, frames |-> f, desynced |-> d, verdict |-> v]

\* The number of times that loop calls buf_contains_message on buffer b.
RECURSIVE LoopIterations(_)
LoopIterations(b) ==
    IF BufContainsMessage(b) = Some(TRUE)
    THEN 1 + LoopIterations(DeframeOne(b, <<>>).buf)
    ELSE 1

QueueFull(f) == Len(f) > QUEUE_SIZE

BufLimitPerCall(used) == used + MAX_MESSAGE

\* The length read() resizes buf to, which is also the end of the slice it
\* hands to the source.
BufLimit(used) == MAX_MESSAGE

ReadFailedKeep(b, used) == b

\* rc.is_err(): discard indeterminate bytes.
ReadFailed(b, used) == Truncate(b, used)

ReadSucceededKeep(b, used, new_bytes) == b

\* rc is Ok(new_bytes): keep the bytes the source wrote, drop the rest.
ReadSucceeded(b, used, new_bytes) == Truncate(b, used + new_bytes)

ReadReturnErrOnDesync(d, new_bytes) == IF d THEN IoErr ELSE Ok(new_bytes)

\* What read() returns after the loop, whatever the loop left in desynced (d).
ReadReturn(d, new_bytes) == Ok(new_bytes)

HasPendingFramesOnly == frames /= <<>>

HasPending == frames /= <<>> \/ buf /= <<>>

(***************************************************************************)
(* What arrives on the byte source.                                        *)
(***************************************************************************)
Handshake0 == <<22, 3, 3, 0, 0>>

Alert2 == <<21, 3, 1, 0, 2, 1, 40>>

BadType == <<99, 3, 3, 0, 0>>

TooLong == <<22, 3, 3, 0, PayloadLimit>>

Items == {Handshake0, Alert2, BadType, TooLong}

ProbeBytes == {0, 1, 3, 22, PayloadLimit - 1, PayloadLimit}

(***************************************************************************)
(* Initial state: MessageDeframer::new() and an idle byte source.          *)
(***************************************************************************)
Init ==
    /\ buf = <<>>
    /\ frames = <<>>
    /\ desynced = FALSE
    /\ src = <<>>
    /\ arrived = 0
    /\ wire = <<>>
    /\ popped = <<>>
    /\ lastOp = "new"
    /\ rc = None
    /\ ioReq = None
    /\ ioRes = None
    /\ framesBefore = 0
    /\ desyncedBefore = FALSE
    /\ verdict = Some(FALSE)
    /\ bytewise = TRUE
    /\ probe = <<>>

\* The peer sends one more item; the source holds it until it is read.
Arrive(it) ==
    /\ arrived < MaxItems
    /\ arrived' = arrived + 1
    /\ src' = src \o it
    /\ UNCHANGED <<buf, frames, desynced, wire, popped, lastOp, rc, ioReq,
                   ioRes, framesBefore, desyncedBefore, verdict, bytewise, probe>>

\* read() refused by the queue bound: no source read.
ReadBackpressure ==
    /\ QueueFull(frames)
    /\ lastOp' = "read"
    /\ rc' = Some(Ok(0))
    /\ ioReq' = None
    /\ ioRes' = None
    /\ framesBefore' = Len(frames)
    /\ desyncedBefore' = desynced
    /\ UNCHANGED <<buf, frames, desynced, src, arrived, wire, popped, verdict,
                   bytewise, probe>>

\* read() whose source read fails; the source may have scribbled j bytes
\* into the slice before failing.
ReadErr(j) ==
    /\ ~QueueFull(frames)
    /\ LET used  == Len(buf)
           limit == BufLimit(used)
           grown == Resize(buf, limit, 0)
           dirty == WriteSlice(grown, used, limit, SubSeq(src, 1, j))
       IN  /\ j <= limit - used
           /\ buf' = ReadFailed(dirty, used)
           /\ ioReq' = Some(limit - used)
    /\ lastOp' = "read"
    /\ rc' = Some(IoErr)
    /\ ioRes' = Some(IoErr)
    /\ framesBefore' = Len(frames)
    /\ desyncedBefore' = desynced
    /\ UNCHANGED <<frames, desynced, src, arrived, wire, popped, verdict,
                   bytewise, probe>>

\* read() whose source read returns n bytes.
ReadOk(n) ==
    /\ ~QueueFull(frames)
    /\ LET used  == Len(buf)
           limit == BufLimit(used)
           grown == Resize(buf, limit, 0)
           bytes == SubSeq(src, 1, n)
           full  == WriteSlice(grown, used, limit, bytes)
           cut   == ReadSucceeded(full, used, n)
           r     == DrainLoop(cut, frames, desynced)
       IN  /\ n <= limit - used
           /\ buf' = r.buf
           /\ frames' = r.frames
           /\ desynced' = r.desynced
           /\ verdict' = r.verdict
           /\ rc' = Some(ReadReturn(r.desynced, n))
           /\ ioReq' = Some(limit - used)
    /\ ioRes' = Some(Ok(n))
    /\ src' = SubSeq(src, n + 1, Len(src))
    /\ wire' = wire \o SubSeq(src, 1, n)
    /\ bytewise' = (bytewise /\ n <= 1)
    /\ lastOp' = "read"
    /\ framesBefore' = Len(frames)
    /\ desyncedBefore' = desynced
    /\ UNCHANGED <<arrived, popped, probe>>

\* frames.pop_front() by the caller.
Pop ==
    /\ lastOp' = "pop"
    /\ framesBefore' = Len(frames)
    /\ desyncedBefore' = desynced
    /\ IF frames = <<>>
       THEN UNCHANGED <<frames, popped>>
       ELSE /\ popped' = Append(popped, Head(frames))
            /\ frames' = Tail(frames)
    /\ rc' = None
    /\ ioReq' = None
    /\ ioRes' = None
    /\ UNCHANGED <<buf, desynced, src, arrived, wire, verdict, bytewise, probe>>

\* Any read() call.
ReadCall ==
    \/ ReadBackpressure
    \/ \E j \in {0, Len(src)} : ReadErr(j)
    \/ \E n \in 0..Len(src) : ReadOk(n)

Next ==
    \/ \E it \in Items : Arrive(it)
    \/ ReadBackpressure
    \/ \E j \in {0, Len(src)} : ReadErr(j)
    \/ \E n \in 0..Len(src) : ReadOk(n)
    \/ Pop

Spec == Init /\ [][Next]_vars

(***************************************************************************)
(* buf_contains_message on its own: a fresh deframer whose buffer is       *)
(* grown one arbitrary byte at a time, the verdict taken at every length.  *)
(***************************************************************************)
ProbeStep(x) ==
    /\ lastOp = "new"
    /\ arrived = 0
    /\ Len(probe) < MaxProbe
    /\ probe' = Append(probe, x)
    /\ verdict' = BufContainsMessage(probe')
    /\ UNCHANGED <<buf, frames, desynced, src, arrived, wire, popped, lastOp,
                   rc, ioReq, ioRes, framesBefore, desyncedBefore, bytewise>>

NextVerdict ==
    \/ \E x \in ProbeBytes : ProbeStep(x)
    \/ (probe = <<>> /\ Next)

SpecVerdict == Init /\ [][NextVerdict]_vars

(***************************************************************************)
(* The wire format, read off a byte stream independently of the deframer:  *)
(* 1 byte type, 2 bytes version, 2 bytes big-endian length, payload.       *)
(***************************************************************************)
HeaderValid(w) == w[1] \in ContentTypes /\ <<w[2], w[3]>> \in ProtocolVersions

DeclaredLen(w) == w[4] * 256 + w[5]

\* w starts with a whole well-formed record.
StartsWithRecord(w) ==
    /\ Len(w) >= HEADER_SIZE
    /\ HeaderValid(w)
    /\ DeclaredLen(w) < MAX_MESSAGE - HEADER_SIZE
    /\ Len(w) >= HEADER_SIZE + DeclaredLen(w)

\* The whole well-formed records w starts with, in wire order.
RECURSIVE WireRecords(_)
WireRecords(w) ==
    IF ~StartsWithRecord(w) THEN <<>>
    ELSE LET n == HEADER_SIZE + DeclaredLen(w) IN
         <<[typ     |-> w[1],
            version |-> <<w[2], w[3]>>,
            payload |-> SubSeq(w, HEADER_SIZE + 1, n)]>>
         \o WireRecords(SubSeq(w, n + 1, Len(w)))

\* What follows those records.
RECURSIVE WireRest(_)
WireRest(w) ==
    IF ~StartsWithRecord(w) THEN w
    ELSE WireRest(SubSeq(w, HEADER_SIZE + DeclaredLen(w) + 1, Len(w)))

\* w is made of well-formed records, the last one possibly still arriving.
WellFormedStream(w) ==
    LET rest == WireRest(w) IN
    \/ Len(rest) < HEADER_SIZE
    \/ HeaderValid(rest) /\ DeclaredLen(rest) < MAX_MESSAGE - HEADER_SIZE

\* The deframer state after one read() call that is handed all of w at once.
SingleRead(w) == DrainLoop(w, <<>>, FALSE)

(***************************************************************************)
(* C1. Chunking independence: whatever way the source reads split a stream *)
(* of well-formed records, the records read() has queued so far (popped    *)
(* since or not) and the bytes left in buf are those a single read() of    *)
(* the whole stream yields; so a record fed one byte per call gives the    *)
(* one record that feeding it whole gives.                                 *)
(***************************************************************************)
ChunkingIndependence ==
    WellFormedStream(wire) =>
        /\ popped \o frames = SingleRead(wire).frames
        /\ buf = SingleRead(wire).buf
        /\ desynced = FALSE

\* A whole record arrived one byte per read() call and is the one queued record.
FedBytewise ==
    /\ bytewise
    /\ wire = Alert2
    /\ Len(frames) = 1
    /\ buf = <<>>

(***************************************************************************)
(* C2. FIFO wire order: the records popped so far followed by the queued   *)
(* ones are exactly the whole records of the wire, in wire order, whether  *)
(* they came packed in one read or in several; and once only whole         *)
(* well-formed records were fed, has_pending() is false only when all of   *)
(* them have been popped.                                                  *)
(***************************************************************************)
FifoWireOrder ==
    /\ popped \o frames = WireRecords(wire)
    /\ (WireRest(wire) = <<>> /\ ~HasPending) => Len(popped) = Len(WireRecords(wire))

\* After a first record was popped, two different records came packed in one
\* read() and are queued in wire order behind it.
PackedBehindPopped ==
    /\ lastOp = "read"
    /\ wire = Handshake0 \o Handshake0 \o Alert2
    /\ ioRes = Some(Ok(Len(Handshake0 \o Alert2)))
    /\ Len(popped) = 1
    /\ Len(frames) = 2
    /\ frames[1].typ = 22
    /\ frames[2].typ = 21

(***************************************************************************)
(* C3. Backpressure as claimed: a read() call that starts with at least    *)
(* QUEUE_SIZE records queued issues no source read, returns Ok(0) and      *)
(* leaves buf, frames and desynced alone.                                  *)
(***************************************************************************)
BackpressureAtCapacity ==
    [][(ReadCall /\ Len(frames) >= QUEUE_SIZE) =>
          /\ ioReq' = None
          /\ rc' = Some(Ok(0))
          /\ UNCHANGED <<buf, frames, desynced>>]_vars

(***************************************************************************)
(* C4. Queue bound as claimed: frames never holds more than QUEUE_SIZE     *)
(* records.                                                                *)
(***************************************************************************)
QueueBounded == Len(frames) <= QUEUE_SIZE

(***************************************************************************)
(* C5. Buffer bound: between calls buf is never longer than MAX_MESSAGE,   *)
(* the source returning at most what it was asked for.                     *)
(***************************************************************************)
BufferBounded == Len(buf) <= MAX_MESSAGE

\* A read() call has filled buf to MAX_MESSAGE.
BufferFull == lastOp = "read" /\ Len(buf) = MAX_MESSAGE

(***************************************************************************)
(* C6. I/O error rollback: a read() call whose source read fails returns   *)
(* the error and leaves buf, frames and desynced (and the bytes the source *)
(* still holds) as they were.                                              *)
(***************************************************************************)
IoErrorRollback ==
    [][(\E j \in {0, Len(src)} : ReadErr(j)) =>
          /\ rc' = Some(IoErr)
          /\ UNCHANGED <<buf, frames, desynced, src, wire>>]_vars

\* A source read failed while buf held bytes of earlier calls and the source
\* held more.
FailedWithBufferedBytes ==
    /\ lastOp = "read"
    /\ rc = Some(IoErr)
    /\ buf /= <<>>
    /\ src /= <<>>

(***************************************************************************)
(* C7. Desync latch: desynced is false on creation and no step takes it    *)
(* from true back to false.                                                *)
(***************************************************************************)
DesyncLatch == (desynced = FALSE) /\ [][desynced => desynced']_vars

\* A read() call that started desynced took more bytes and ended desynced.
StillDesyncedAfterRead ==
    /\ lastOp = "read"
    /\ desyncedBefore
    /\ desynced
    /\ ioRes /= None
    /\ Unwrap(ioRes).ok
    /\ Unwrap(ioRes).val > 0

(***************************************************************************)
(* C8. No extraction after desync: once desynced is set no step adds a     *)
(* record; a step only moves records from the front of frames to the       *)
(* caller, so the records queued before remain poppable in order.          *)
(***************************************************************************)
NoExtractionAfterDesync ==
    [][desynced =>
          /\ Len(frames') <= Len(frames)
          /\ popped' \o frames' = popped \o frames]_vars

\* After the desync a whole valid-looking record arrived behind the damaged
\* header and stayed in buf, and a record queued before was popped.
PoppedAfterDesync ==
    /\ lastOp = "pop"
    /\ desyncedBefore
    /\ Len(popped) >= 1
    /\ Len(buf) >= 2 * HEADER_SIZE
    /\ StartsWithRecord(SubSeq(buf, HEADER_SIZE + 1, Len(buf)))

(***************************************************************************)
(* C9. Corruption is never an error return: read() returns an error        *)
(* exactly when its source read returned one, and returns Ok(n) when the   *)
(* source read returned n bytes, also in the call that sets desynced.      *)
(***************************************************************************)
ErrorsOnlyFromSource ==
    lastOp = "read" =>
        /\ rc /= None
        /\ ~Unwrap(rc).ok <=> (ioRes /= None /\ ~Unwrap(ioRes).ok)
        /\ (ioRes /= None /\ Unwrap(ioRes).ok) => rc = ioRes

\* The call that set desynced returned the byte count of its source read.
DesyncReturnedOk ==
    /\ lastOp = "read"
    /\ ~desyncedBefore
    /\ desynced
    /\ rc /= None
    /\ Unwrap(rc).ok
    /\ Unwrap(rc).val > 0

(***************************************************************************)
(* C10. Three-way verdict: for a buffer of n bytes buf_contains_message is *)
(* incomplete (Some(false)) when n < H, invalid (None) when the header     *)
(* fails validation or declares L >= M - H, complete (Some(true)) when     *)
(* n >= H + L, incomplete otherwise; and no state between calls has an     *)
(* invalid header at the front of buf with desynced still false.           *)
(***************************************************************************)
VerdictTable(b) ==
    IF Len(b) < HEADER_SIZE THEN Some(FALSE)
    ELSE IF ~HeaderValid(b) THEN None
    ELSE IF DeclaredLen(b) >= MAX_MESSAGE - HEADER_SIZE THEN None
    ELSE IF Len(b) >= HEADER_SIZE + DeclaredLen(b) THEN Some(TRUE)
    ELSE Some(FALSE)

ThreeWayVerdict ==
    /\ lastOp = "new" => verdict = VerdictTable(probe)
    /\ (Len(buf) >= HEADER_SIZE /\ VerdictTable(buf) = None) => desynced

\* An oversized header desynced the deframer with no payload byte in buf.
DesyncedOnHeaderAlone ==
    /\ lastOp = "read"
    /\ desynced
    /\ Len(buf) = HEADER_SIZE
    /\ HeaderValid(buf)
    /\ DeclaredLen(buf) = MAX_MESSAGE - HEADER_SIZE

(***************************************************************************)
(* C11. Maximum accepted payload as claimed: a valid header that declares  *)
(* at most 16384 + 2048 payload bytes (a record of at most MAX_MESSAGE     *)
(* bytes on the wire) does not desynchronise the deframer.                 *)
(***************************************************************************)
MaxPayloadAccepted ==
    (/\ Len(buf) >= HEADER_SIZE
     /\ HeaderValid(buf)
     /\ DeclaredLen(buf) <= MAX_MESSAGE - HEADER_SIZE) => ~desynced

(***************************************************************************)
(* C12. has_pending() is true exactly when frames holds a record or buf    *)
(* holds a byte; it is false on a fresh deframer, and false again once     *)
(* only whole well-formed records were fed and all of them were popped.    *)
(***************************************************************************)
HasPendingExact ==
    /\ HasPending <=> (Len(frames) >= 1 \/ Len(buf) >= 1)
    /\ lastOp = "new" => ~HasPending
    /\ (WireRest(wire) = <<>> /\ Len(popped) = Len(WireRecords(wire))) => ~HasPending

\* Two whole records were fed and both popped: nothing is pending.
AllFedAllPopped ==
    /\ lastOp = "pop"
    /\ wire = Handshake0 \o Alert2
    /\ Len(popped) = 2
    /\ ~HasPending

(***************************************************************************)
(* C13. Partial-record visibility: a read() call that hands one more byte  *)
(* of a well-formed stream to a synced deframer returns Ok(1) and leaves   *)
(* has_pending() true; it leaves frames as it was unless the byte is the   *)
(* last one of a record, and then it appends exactly one record.           *)
(***************************************************************************)
PartialRecordVisibility ==
    [][(Len(src) >= 1 /\ ReadOk(1) /\ ~desynced /\ WellFormedStream(wire')) =>
          /\ rc' = Some(Ok(1))
          /\ HasPending'
          /\ IF WireRest(wire') = <<>>
             THEN Len(frames') = Len(frames) + 1 /\ buf' = <<>>
             ELSE frames' = frames /\ buf' = Append(buf, wire'[Len(wire')])]_vars

\* The second of two records, both fed one byte per call, was queued by the
\* call that delivered its last byte.
SecondRecordFedBytewise ==
    /\ bytewise
    /\ lastOp = "read"
    /\ rc = Some(Ok(1))
    /\ wire = Handshake0 \o Alert2
    /\ framesBefore = 1
    /\ Len(frames) = 2

\* A step that is a read() call (Arrive changes arrived, Pop sets lastOp to
\* "pop"), one whose source read succeeded, and the buffer the loop of that
\* call starts from: the old buffer followed by the bytes the source returned.
ReadStep == lastOp' = "read" /\ arrived' = arrived

ReadOkStep == ReadStep /\ ioRes' /= None /\ Unwrap(ioRes').ok

Filled == buf \o SubSeq(wire', Len(wire) + 1, Len(wire'))

(***************************************************************************)
(* C14. One read per call: a read() call refused by backpressure issues no *)
(* source read; any other issues one, for exactly MAX_MESSAGE minus the    *)
(* buffer length bytes, and returns the byte count the source reported.    *)
(***************************************************************************)
OneReadPerCall ==
    [][ReadStep =>
          IF Len(frames) > QUEUE_SIZE
          THEN ioReq' = None /\ ioRes' = None
          ELSE /\ ioReq' = Some(MAX_MESSAGE - Len(buf))
               /\ ioRes' /= None
               /\ Unwrap(ioRes').ok => rc' = ioRes']_vars

\* With bytes already buffered, one source read brought two records; the
\* call returned its byte count.
ReadIntoPartBuffer ==
    /\ lastOp = "read"
    /\ ioReq /= None
    /\ Unwrap(ioReq) < MAX_MESSAGE
    /\ Len(frames) - framesBefore = 2
    /\ rc = ioRes
    /\ Unwrap(rc).val > 2

(***************************************************************************)
(* C15. Full drain: between calls a synced deframer never has a complete   *)
(* record at the front of buf: buf is shorter than a header, or starts     *)
(* with a valid header whose record is longer than buf.                    *)
(***************************************************************************)
FullDrain ==
    ~desynced =>
        \/ Len(buf) < HEADER_SIZE
        \/ /\ HeaderValid(buf)
           /\ HEADER_SIZE + DeclaredLen(buf) > Len(buf)

\* One read() queued two records and left the start of a third in buf.
DrainedTwoLeftPartial ==
    /\ lastOp = "read"
    /\ ~desynced
    /\ Len(frames) - framesBefore = 2
    /\ buf /= <<>>


(***************************************************************************)
(* C16. Stop at first invalid verdict: when a read() call of a synced      *)
(* deframer leaves buf holding k >= 0 whole well-formed records, then an   *)
(* invalid header, then any bytes, the call queues exactly those k records *)
(* in order, sets desynced and leaves the invalid header and all that      *)
(* follows in buf; and whenever desynced is set the records queued so far  *)
(* are only those that precede the first invalid header on the wire.       *)
(***************************************************************************)
StopAtFirstInvalid ==
    [][/\ (/\ ReadOkStep
           /\ ~desynced
           /\ Len(WireRest(Filled)) >= HEADER_SIZE
           /\ VerdictTable(WireRest(Filled)) = None) =>
              /\ desynced'
              /\ frames' = frames \o WireRecords(Filled)
              /\ buf' = WireRest(Filled)
       /\ desynced' => popped' \o frames' = WireRecords(wire')]_vars

\* One read() brought a whole record, a damaged header and more bytes: the
\* record is queued and the rest stays in buf.
RecordThenDamage ==
    /\ lastOp = "read"
    /\ ~desyncedBefore
    /\ desynced
    /\ Len(frames) - framesBefore = 1
    /\ Len(buf) > HEADER_SIZE
    /\ ~HeaderValid(buf)

(***************************************************************************)
(* C17. Byte conservation: the wire bytes of every record extracted so far *)
(* (popped or queued), in order, followed by buf, are exactly the bytes    *)
(* the successful source reads returned; so each deframe_one took exactly  *)
(* header + declared length bytes off the front of buf for its one record. *)
(***************************************************************************)
RecordBytes(m) ==
    <<m.typ, m.version[1], m.version[2],
      Len(m.payload) \div 256, Len(m.payload) % 256>> \o m.payload

RECURSIVE WireBytes(_)
WireBytes(ms) ==
    IF ms = <<>> THEN <<>> ELSE RecordBytes(Head(ms)) \o WireBytes(Tail(ms))

ByteConservation == WireBytes(popped \o frames) \o buf = wire

\* A record popped, another queued, and part of a third in buf.
PoppedQueuedAndPartial ==
    /\ ~desynced
    /\ Len(popped) >= 1
    /\ Len(frames) >= 1
    /\ buf /= <<>>

(***************************************************************************)
(* C18. Termination: the loop of a read() call evaluates                   *)
(* buf_contains_message at most floor(buffer length / H) + 1 times, every  *)
(* evaluation but the last one queues a record and takes at least H bytes  *)
(* off the buffer.                                                         *)
(***************************************************************************)
LoopBounded ==
    [][ReadOkStep =>
          LET it == LoopIterations(Filled) IN
          /\ it <= (Len(Filled) \div HEADER_SIZE) + 1
          /\ Len(frames') = Len(frames) + (it - 1)
          /\ Len(Filled) - Len(buf') >= HEADER_SIZE * (it - 1)]_vars

\* A read() of two empty records: the loop ran floor(10 / 5) + 1 times.
LoopRanToTheBound ==
    /\ lastOp = "read"
    /\ ioRes = Some(Ok(2 * HEADER_SIZE))
    /\ framesBefore = 0
    /\ Len(frames) = 2
    /\ buf = <<>>

(***************************************************************************)
(* C19 as claimed: a synced deframer holds at most MAX_MESSAGE - 2 bytes   *)
(* and so asks for at least 2; a source read of size 0 is only issued when *)
(* desynced; and once buf holds MAX_MESSAGE bytes every read() returns     *)
(* Ok(0).                                                                  *)
(***************************************************************************)
ZeroReadsAsClaimed ==
    [][/\ ~desynced' => Len(buf') <= MAX_MESSAGE - 2
       /\ ReadStep =>
             /\ (~desynced /\ ioReq' /= None) => Unwrap(ioReq') >= 2
             /\ ioReq' = Some(0) => desynced
             /\ Len(buf) = MAX_MESSAGE => rc' = Some(Ok(0))]_vars

(***************************************************************************)
(* C19 as amended: the same, except that once buf holds MAX_MESSAGE bytes  *)
(* it stays there and every read() whose source read does not fail returns *)
(* Ok(0); a failing source read is returned as its error.                  *)
(***************************************************************************)
ZeroReadsOnlyDesynced ==
    [][/\ ~desynced' => Len(buf') <= MAX_MESSAGE - 2
       /\ Len(buf) = MAX_MESSAGE => Len(buf') = MAX_MESSAGE
       /\ ReadStep =>
             /\ (~desynced /\ ioReq' /= None) => Unwrap(ioReq') >= 2
             /\ ioReq' = Some(0) => desynced
             /\ (Len(buf) = MAX_MESSAGE /\ ioRes' /= Some(IoErr)) => rc' = Some(Ok(0))
             /\ ioRes' = Some(IoErr) => rc' = Some(IoErr)]_vars

\* A desynced deframer with a full buffer issued a source read of size 0 and
\* returned Ok(0).
ZeroLengthRead ==
    /\ lastOp = "read"
    /\ desynced
    /\ Len(buf) = MAX_MESSAGE
    /\ ioReq = Some(0)
    /\ rc = Some(Ok(0))

(***************************************************************************)
(* C20. has_pending is stuck true after desync: while desynced is set buf  *)
(* holds at least a header, no step removes or changes a byte of it, and   *)
(* has_pending() is true, also when every queued record has been popped.   *)
(***************************************************************************)
PendingStuckAfterDesync ==
    /\ [](desynced => (Len(buf) >= HEADER_SIZE /\ HasPending))
    /\ [][desynced =>
             /\ Len(buf') >= Len(buf)
             /\ SubSeq(buf', 1, Len(buf)) = buf]_vars

\* Desynced, every queued record popped, and has_pending() still true.
PendingWithEmptyQueue ==
    /\ lastOp = "pop"
    /\ desynced
    /\ Len(popped) >= 1
    /\ frames = <<>>
    /\ HasPending

====
